---- MODULE Spec2Model ----
(***************************************************************************)
(* Model of the Microsoft Entra MCP server (main.py): the EntraClient      *)
(* (token cache, single requests, paged collection, search with fallback,  *)
(* identifier resolution, membership) and the four tool functions that     *)
(* wrap it.  The Graph service and the credential provider are the         *)
(* environment: every request may fail or return any page of the bounded   *)
(* page set, every token request may fail or return a new token.           *)
(*                                                                         *)
(* Python's Optional values are modelled as sequences: None is <<>>, a     *)
(* present value x is <<x>>.                                               *)
(***************************************************************************)
EXTENDS Integers, Sequences, FiniteSets, TLC

\* ---------------------------------------------------------------- bounds
MaxPageLen == 3      \* most records the service puts in one page
MaxPages == 3        \* most pages the service serves in one collection
MaxLimit == 5        \* largest limit a caller passes
MaxCredCalls == 2    \* most calls the credential provider answers
MaxClients == 2      \* most EntraClient objects ever constructed
MaxQueryLen == 3     \* longest query string handed to the query builder

\* ------------------------------------------------------------ value sets
Tasks == {"A", "B"}
None == <<>>
Some(x) == <<x>>

SearchTools == {"search_entra_users", "search_entra_groups"}
Tools == SearchTools \cup {"get_user_group_membership", "get_group_members"}
Limits == {-1, 0, 2, MaxLimit}
Identifiers == {"jane@co.com"}
UserIds == {"u42", "u7"}
GroupIds == {"g1"}

\* The record lists a page may carry: the page with n records holds the
\* records 1..n, so that records repeat from page to page.
Bodies == {[i \in 1..n |-> i] : n \in 0..MaxPageLen}
CountHints == {None, Some(7)}
\* The @odata.count a continuation page carries: never the first page's.
LaterCountHints == {Some(9)}
HttpErrors == {"HTTPStatusError"}

VARIABLES
  entra_client,   \* the module global: None or Some(id of the EntraClient)
  nclients,       \* EntraClient objects constructed so far
  token,          \* EntraClient._token: None or Some(token)
  credCalls,      \* calls made to credential.get_token
  pc,             \* per task: "idle", "send" (about to request), "wait"
                  \*   (request in flight), "done" (the tool has returned)
  tool,           \* per task: the tool function being served
  limit,          \* per task: item_limit handed to _collect_paged
  ident,          \* per task: the identifier argument
  phase,          \* per task: which request sequence of the operation runs
  hop,            \* per task: "first" page or "next" (continuation) page
  items,          \* per task: _collect_paged's items
  total_count,    \* per task: _collect_paged's total_count
  next_link,      \* per task: _collect_paged's next_link
  resolved,       \* per task: get_user_membership's resolved
  user_id,        \* per task: get_user_membership's user_id
  reqlog,         \* per task: the requests the current call has attempted,
                  \*   in order ("unsent": no token, nothing was sent)
  fetched,        \* per task: the records of the pages of this collection
  collected,      \* per task: what the last _collect_paged returned
  cres,           \* per task: what the EntraClient method returned/raised
  ret,            \* per task: what the tool function returned
  active,         \* the tasks the host uses for tool calls
  raw_query,      \* the argument of a call of _build_and_search_query
  search_expr,    \* what that call returned: None before it returns
  filter_value,   \* the caller's value a $filter expression is built for
  filter_site,    \* where it is built: "none" before it is
  filter_expr     \* the $filter expression: None before it is built

vars == <<entra_client, nclients, token, credCalls, pc, tool, limit, ident,
          phase, hop, items, total_count, next_link, resolved, user_id,
          reqlog,
          fetched, collected, cres, ret, active, raw_query, search_expr,
          filter_value, filter_site, filter_expr>>

clientVars == <<entra_client, nclients>>
tokenVars == <<token, credCalls>>
argVars == <<tool, limit, ident>>
filterVars == <<filter_value, filter_site, filter_expr>>
queryVars == <<raw_query, search_expr, filterVars>>

\* ------------------------------------------------------ Python helpers
Min(a, b) == IF a <= b THEN a ELSE b
Max(a, b) == IF a >= b THEN a ELSE b

\* s[:n] for a Python list: a negative n counts from the end.
PySlice(s, n) ==
  IF n >= 0 THEN SubSeq(s, 1, Min(n, Len(s)))
  ELSE SubSeq(s, 1, Max(0, Len(s) + n))

\* d.get(k, default): the default is used only when the key is absent.
DictGet(d, k, default) == IF k \in DOMAIN d THEN d[k] ELSE default

\* --------------------------------------------------- EntraClient pieces
\* Faulty variant of NeedsToken: the cache is never consulted.
NeedsTokenAlways(tok) == TRUE

\* _get_token, line 48: the credential provider is asked only when the
\* cache is empty.
NeedsToken(tok) == tok = None

\* Faulty variant of LoopCond: the loop goes on at the limit.
LoopCondOffByOne(link, its, item_limit) ==
  link # None /\ (item_limit = None \/ Len(its) <= item_limit[1])

\* Faulty variant of LoopCond: the limit does not stop the loop.
LoopCondNoLimit(link, its, item_limit) == link # None

\* _collect_paged, line 87: the loop condition.
LoopCond(link, its, item_limit) ==
  link # None /\ (item_limit = None \/ Len(its) < item_limit[1])

\* Faulty variant of Truncate: the overshoot is kept.
TruncateNone(its, item_limit) == its

\* _collect_paged, lines 93-94: the truncation after the loop.
Truncate(its, item_limit) ==
  IF item_limit # None /\ Len(its) > item_limit[1]
  THEN PySlice(its, item_limit[1])
  ELSE its

\* Faulty variant of Extend: records already collected are skipped.
ExtendDedup(its, page_items) ==
  its \o SelectSeq(page_items,
                   LAMBDA x : \A i \in 1..Len(its) : its[i] # x)

\* _collect_paged, line 90: items.extend(page_items).
Extend(its, page_items) == its \o page_items

\* _collect_paged, line 96: the returned dict.
CollectReturn(its, cnt) == [value |-> its, count |-> cnt]

\* search_users / search_groups, lines 124-126 and 139-141 (161-163,
\* 175-177): the dict built from what _collect_paged returned.
SearchResult(page) ==
  LET records == DictGet(page, "value", <<>>)
  IN  [records |-> records,
       total_count |-> DictGet(page, "count", Some(Len(records)))]

\* Faulty variant of MembershipTarget: the resolved id is ignored.
MembershipTargetRaw(res, user_identifier) == user_identifier

\* get_user_membership, line 202: resolved or user_identifier.
MembershipTarget(res, user_identifier) ==
  IF res # None THEN res[1] ELSE user_identifier

\* ------------------------------------------------------ tool functions
Doing(tl) ==
  CASE tl = "search_entra_users" -> "searching users"
    [] tl = "search_entra_groups" -> "searching groups"
    [] tl = "get_user_group_membership" -> "getting user membership"
    [] tl = "get_group_members" -> "getting group members"

Exc(type, ph, hp) == [type |-> type, phase |-> ph, hop |-> hp]

\* Faulty variant of ErrorString: the except clause re-raises.
ErrorStringReraise(tl, exc) == [kind |-> "exception", message |-> exc]

\* The except clause of every tool: "Error <doing X>: <message>".
ErrorString(tl, exc) == [kind |-> "error", doing |-> Doing(tl), message |-> exc]

JsonEnvelope(total, records) ==
  [kind |-> "json", total |-> total, records |-> records]

\* search_entra_users / search_entra_groups, lines 270-279 (319-328):
\* int(total_count) raises TypeError on None, which the tool's except
\* clause turns into the error string.
ToolSearchReturn(tl, search_result) ==
  LET records == DictGet(search_result, "records", <<>>)
      total == DictGet(search_result, "total_count", Some(Len(records)))
  IN  IF total = None
      THEN ErrorString(tl, Exc("TypeError", "tool", "none"))
      ELSE JsonEnvelope(total[1], records)

\* get_user_group_membership / get_group_members, lines 369-375 (417-423).
ToolListReturn(records) == JsonEnvelope(Len(records), records)

\* ------------------------------------------------------ control flow
\* A faulty variant of CollectPhases: get_group_members pages as well.
CollectPhasesWithMembers == {"primary", "fallback", "memberOf", "members"}

\* The request sequences that go through _collect_paged (lines 123, 133,
\* 160, 170, 204); get_group_members calls _make_request (line 220).
CollectPhases == {"primary", "fallback", "memberOf"}

\* A faulty variant of FirstPhase: resolution starts with the mail lookup.
FirstPhaseMailFirst(tl) ==
  CASE tl \in SearchTools -> "primary"
    [] tl = "get_user_group_membership" -> "mail"
    [] tl = "get_group_members" -> "members"

\* A faulty variant of FirstPhase: a search starts with the $filter query.
FirstPhaseFilterFirst(tl) ==
  CASE tl \in SearchTools -> "fallback"
    [] tl = "get_user_group_membership" -> "direct"
    [] tl = "get_group_members" -> "members"

\* Which request sequence a tool starts with.
FirstPhase(tl) ==
  CASE tl \in SearchTools -> "primary"                     \* lines 122-123
    [] tl = "get_user_group_membership" -> "direct"       \* lines 201, 183
    [] tl = "get_group_members" -> "members"              \* line 220

\* Faulty variants of OnError: the primary attempt is not caught; a failed
\* final collection is tried again; the mail lookup is not caught.
OnErrorNoFallback(ph) ==
  CASE ph = "direct" -> "mail"
    [] ph = "mail" -> "memberOf"
    [] OTHER -> "propagate"

OnErrorRetry(ph) ==
  CASE ph = "primary" -> "fallback"
    [] ph = "direct" -> "mail"
    [] ph = "mail" -> "memberOf"
    [] ph = "fallback" -> "fallback"
    [] ph = "memberOf" -> "memberOf"
    [] OTHER -> "propagate"

OnErrorMailPropagates(ph) ==
  CASE ph = "primary" -> "fallback"
    [] ph = "direct" -> "mail"
    [] OTHER -> "propagate"

\* The except clauses of the client: where control goes when a request of
\* phase ph raises.  search_users/search_groups catch the primary attempt
\* (lines 127-129, 164-166), _resolve_user_id catches both lookups (lines
\* 185-186, 195-196); everything else propagates to the tool.
OnError(ph) ==
  CASE ph = "primary" -> "fallback"
    [] ph = "direct" -> "mail"
    [] ph = "mail" -> "memberOf"
    [] OTHER -> "propagate"

\* _resolve_user_id, lines 192-197: the id of the first match, or None.
ResolveFromMail(users) ==
  IF users # <<>> THEN Some(users[1].id) ELSE None

\* A faulty variant of ShouldConstruct: every call constructs a client.
ShouldConstructAlways(client) == TRUE

\* get_entra_client, line 230: construct only when the global is unset.
ShouldConstruct(client) == client = None

\* What the mail lookup may answer, and what a page may be.
MailMatches == {<<>>} \cup {<<[id |-> u]>> : u \in UserIds}

\* The requests sent so far by the current request sequence of task t.
Served(t) ==
  Cardinality({i \in 1..Len(reqlog[t]) :
                 /\ reqlog[t][i].phase = phase[t]
                 /\ reqlog[t][i].outcome # "unsent"})

Links(t) == {None} \cup (IF Served(t) < MaxPages THEN {Some(Served(t) + 1)} ELSE {})

Pages(t) ==
  {[value |-> b, count |-> c, nextLink |-> l] :
     b \in Bodies,
     c \in IF hop[t] = "first" THEN CountHints ELSE LaterCountHints,
     l \in Links(t)}

\* ------------------------------------------------------------ requests
Endpoint(t) ==
  CASE phase[t] \in {"primary", "fallback"} ->
         IF tool[t] = "search_entra_users" THEN <<"users">> ELSE <<"groups">>
    [] phase[t] = "direct" -> <<"users", ident[t]>>               \* line 183
    [] phase[t] = "mail" -> <<"users">>                           \* line 191
    [] phase[t] = "memberOf" -> <<"users", user_id[t], "memberOf">> \* line 203
    [] phase[t] = "members" -> <<"groups", ident[t], "members">>  \* line 215

Params(t) ==
  CASE phase[t] = "primary" -> "$search"
    [] phase[t] = "fallback" -> "$filter startswith"
    [] phase[t] = "direct" -> "none"
    [] phase[t] = "mail" -> "$filter mail eq"
    [] phase[t] = "memberOf" -> "$top=50"
    [] phase[t] = "members" -> "$top=limit"

\* A faulty variant of ExtraHeaders: the caller's headers are dropped.
ExtraHeadersNone(t) == {}

\* extra_headers: ConsistencyLevel for every _collect_paged (lines 116,
\* 153, 205), nothing for _make_request's other callers.
ExtraHeaders(t) ==
  IF phase[t] \in CollectPhases THEN {"ConsistencyLevel"} ELSE {}

\* The request _make_request (lines 54-65) or the loop body (line 88 with
\* _get_next_link, line 72) issues, carrying the token tk.
Request(t, tk) ==
  [phase |-> phase[t], hop |-> hop[t],
   endpoint |-> IF hop[t] = "first" THEN Endpoint(t) ELSE <<>>,
   link |-> IF hop[t] = "first" THEN None ELSE next_link[t],
   params |-> IF hop[t] = "first" THEN Params(t) ELSE "none",
   headers |-> {"Authorization", "Content-Type"} \cup ExtraHeaders(t),
   auth |-> tk,
   have |-> Len(items[t]),
   match |-> None,
   gotlink |-> None,
   gotcount |-> None,
   outcome |-> "pending"]

Answered(t, how) ==
  reqlog' = [reqlog EXCEPT ![t] = [@ EXCEPT ![Len(@)].outcome = how]]

\* The request of task t in flight is answered with the page pg.
AnsweredPage(t, pg) ==
  reqlog' = [reqlog EXCEPT ![t] =
               [@ EXCEPT ![Len(@)].outcome = "ok",
                         ![Len(@)].gotlink = pg.nextLink,
                         ![Len(@)].gotcount = pg.count]]

\* ------------------------------------------------------ frame updates
SetFrame(t, p, ph, hp, its, cnt, lnk, res, uid, ftc, col, cr, r) ==
  /\ pc' = [pc EXCEPT ![t] = p]
  /\ phase' = [phase EXCEPT ![t] = ph]
  /\ hop' = [hop EXCEPT ![t] = hp]
  /\ items' = [items EXCEPT ![t] = its]
  /\ total_count' = [total_count EXCEPT ![t] = cnt]
  /\ next_link' = [next_link EXCEPT ![t] = lnk]
  /\ resolved' = [resolved EXCEPT ![t] = res]
  /\ user_id' = [user_id EXCEPT ![t] = uid]
  /\ fetched' = [fetched EXCEPT ![t] = ftc]
  /\ collected' = [collected EXCEPT ![t] = col]
  /\ cres' = [cres EXCEPT ![t] = cr]
  /\ ret' = [ret EXCEPT ![t] = r]

\* Enter the request sequence ph (a new _make_request or _collect_paged).
StartPhase(t, ph, res, uid, col) ==
  SetFrame(t, "send", ph, "first", <<>>, None, None, res, uid, <<>>, col,
           cres[t], ret[t])

\* The client method returns or raises cr, the tool returns r.
Finish(t, its, col, cr, r) ==
  SetFrame(t, "done", phase[t], hop[t], its, total_count[t], next_link[t],
           resolved[t], user_id[t], fetched[t], col, cr, r)

Raised(exc) == [raised |-> exc]
Returned(v) == [returned |-> v]

\* An exception exc raised by the current request of task t.
Raise(t, exc) ==
  LET to == OnError(phase[t])
      col == IF phase[t] \in CollectPhases THEN Some(Raised(exc))
             ELSE collected[t]
  IN  CASE to = "fallback" ->
             StartPhase(t, "fallback", resolved[t], user_id[t], col)
        [] to = "mail" -> StartPhase(t, "mail", resolved[t], user_id[t], col)
        [] to = "memberOf" ->                              \* line 197
             StartPhase(t, "memberOf", None,
                        MembershipTarget(None, ident[t]), col)
        [] OTHER ->
             Finish(t, items[t], col, Raised(exc), ErrorString(tool[t], exc))

\* ------------------------------------------------------------- initial
Fresh ==
  /\ entra_client = None
  /\ nclients = 0
  /\ token = None
  /\ credCalls = 0
  /\ pc = [t \in Tasks |-> "idle"]
  /\ tool = [t \in Tasks |-> "none"]
  /\ limit = [t \in Tasks |-> None]
  /\ ident = [t \in Tasks |-> "none"]
  /\ phase = [t \in Tasks |-> "none"]
  /\ hop = [t \in Tasks |-> "none"]
  /\ items = [t \in Tasks |-> <<>>]
  /\ total_count = [t \in Tasks |-> None]
  /\ next_link = [t \in Tasks |-> None]
  /\ resolved = [t \in Tasks |-> None]
  /\ user_id = [t \in Tasks |-> "none"]
  /\ reqlog = [t \in Tasks |-> <<>>]
  /\ fetched = [t \in Tasks |-> <<>>]
  /\ collected = [t \in Tasks |-> None]
  /\ cres = [t \in Tasks |-> None]
  /\ ret = [t \in Tasks |-> None]

\* No call of _build_and_search_query is looked at.
NoFilter == filter_value = <<>> /\ filter_site = "none" /\ filter_expr = None
NoQuery == raw_query = <<>> /\ search_expr = None /\ NoFilter

\* The host serves one tool call at a time.
Init == Fresh /\ active = {"A"} /\ NoQuery

\* The arguments a tool call may come with.
Args(tl) ==
  CASE tl \in SearchTools ->
         {[limit |-> Some(l), ident |-> "none"] : l \in Limits}
    [] tl = "get_user_group_membership" ->                 \* line 367: no limit
         {[limit |-> None, ident |-> i] : i \in Identifiers}
    [] tl = "get_group_members" ->
         {[limit |-> Some(l), ident |-> g] : l \in Limits, g \in GroupIds}

\* --------------------------------------------------------------- actions
\* A tool function is called: get_entra_client (lines 227-232) returns the
\* global client, constructing it first when unset, and the client method
\* runs up to its first request.
CallTool(t) ==
  /\ t \in active
  /\ pc[t] = "idle"
  /\ \E tl \in Tools : \E a \in Args(tl) :
       /\ tool' = [tool EXCEPT ![t] = tl]
       /\ limit' = [limit EXCEPT ![t] = a.limit]
       /\ ident' = [ident EXCEPT ![t] = a.ident]
       /\ IF ShouldConstruct(entra_client)
          THEN /\ nclients < MaxClients
               /\ entra_client' = Some(nclients + 1)
               /\ nclients' = nclients + 1
               /\ token' = None                            \* line 44
          ELSE UNCHANGED <<entra_client, nclients, token>>
       /\ reqlog' = [reqlog EXCEPT ![t] = <<>>]
       /\ SetFrame(t, "send", FirstPhase(tl), "first", <<>>, None, None,
                   None, "none", <<>>, None, None, None)
  /\ UNCHANGED <<credCalls, active, queryVars>>

\* A tool function is called and EntraClient() raises (line 36, or the
\* credential's constructor): the tool returns the error string.
CallToolNoClient(t) ==
  /\ t \in active
  /\ pc[t] = "idle"
  /\ ShouldConstruct(entra_client)
  /\ \E tl \in Tools : \E a \in Args(tl) :
       /\ tool' = [tool EXCEPT ![t] = tl]
       /\ limit' = [limit EXCEPT ![t] = a.limit]
       /\ ident' = [ident EXCEPT ![t] = a.ident]
       /\ reqlog' = [reqlog EXCEPT ![t] = <<>>]
       /\ SetFrame(t, "done", "construct", "none", <<>>, None, None, None,
                   "none", <<>>, None, None,
                   ErrorString(tl, Exc("ValueError", "construct", "none")))
  /\ UNCHANGED <<clientVars, tokenVars, active, queryVars>>

\* _make_request lines 54-65, or line 88 with _get_next_link: _get_token
\* (lines 48-50) yields the token, asking the credential provider when
\* NeedsToken, and the request goes out with it.
SendRequest(t) ==
  /\ pc[t] = "send"
  /\ IF NeedsToken(token)
     THEN /\ credCalls < MaxCredCalls
          /\ credCalls' = credCalls + 1
          /\ token' = Some(credCalls + 1)                  \* line 49
     ELSE UNCHANGED tokenVars
  /\ reqlog' = [reqlog EXCEPT ![t] = Append(@, Request(t, token'[1]))]
  /\ pc' = [pc EXCEPT ![t] = "wait"]
  /\ UNCHANGED <<clientVars, argVars, phase, hop, items, total_count,
                 next_link, resolved, user_id, fetched, collected, cres, ret,
                 active, queryVars>>

\* _get_token line 49: the credential provider raises; no request is sent
\* and the cache stays empty.
TokenFail(t) ==
  /\ pc[t] = "send"
  /\ NeedsToken(token)
  /\ credCalls < MaxCredCalls
  /\ credCalls' = credCalls + 1
  /\ Raise(t, Exc("AuthError", phase[t], hop[t]))
  /\ reqlog' = [reqlog EXCEPT ![t] =
                  Append(@, [Request(t, 0) EXCEPT !.outcome = "unsent"])]
  /\ UNCHANGED <<clientVars, token, argVars, active, queryVars>>

\* The request fails: raise_for_status (lines 66, 73) or the transport
\* raises.
HttpFail(t) ==
  /\ pc[t] = "wait"
  /\ \E e \in HttpErrors : Raise(t, Exc(e, phase[t], hop[t]))
  /\ Answered(t, "fail")
  /\ UNCHANGED <<clientVars, tokenVars, argVars, active, queryVars>>

\* _resolve_user_id lines 183-184: the direct lookup succeeds, the
\* identifier is the user id; get_user_membership goes on (lines 202-210).
DirectOk(t) ==
  /\ pc[t] = "wait"
  /\ phase[t] = "direct"
  /\ StartPhase(t, "memberOf", Some(ident[t]),
                MembershipTarget(Some(ident[t]), ident[t]), collected[t])
  /\ Answered(t, "ok")
  /\ UNCHANGED <<clientVars, tokenVars, argVars, active, queryVars>>

\* _resolve_user_id lines 191-197: the mail lookup answers.
MailOk(t) ==
  /\ pc[t] = "wait"
  /\ phase[t] = "mail"
  /\ \E users \in MailMatches :
       /\ StartPhase(t, "memberOf", ResolveFromMail(users),
                     MembershipTarget(ResolveFromMail(users), ident[t]),
                     collected[t])
       /\ reqlog' = [reqlog EXCEPT ![t] =
                       [@ EXCEPT ![Len(@)].outcome = "ok",
                                 ![Len(@)].match = ResolveFromMail(users)]]
  /\ UNCHANGED <<clientVars, tokenVars, argVars, active, queryVars>>

\* get_group_members lines 220-221 and the tool, lines 415-423.
MembersOk(t) ==
  /\ pc[t] = "wait"
  /\ phase[t] = "members"
  /\ \E pg \in Pages(t) :
       LET members == DictGet(pg, "value", <<>>)
       IN  /\ SetFrame(t, "done", phase[t], hop[t], items[t],
                       total_count[t], next_link[t], resolved[t],
                       user_id[t], pg.value, collected[t],
                       Returned(members), ToolListReturn(members))
           /\ AnsweredPage(t, pg)
  /\ UNCHANGED <<clientVars, tokenVars, argVars, active, queryVars>>

\* A faulty variant of CountHint: the hint of the latest page wins.
CountHintLatest(hp, old, pg) == pg.count

\* _collect_paged's total_count: read from the first page (line 83) and
\* from no continuation page (the loop, lines 87-91, never assigns it).
CountHint(hp, old, pg) ==
  IF hp = "first" THEN pg.count ELSE old

\* A faulty variant of Accumulated: one list kept on the shared client.
AccumulatedOnClient(t) == items["A"]

\* The items a collection of task t has so far: the local list of its own
\* _collect_paged call (line 82), extended in place (line 90).
Accumulated(t) == items[t]

\* What the caller of _collect_paged does with the dict it returns.
ClientReturn(tl, col) ==
  IF tl \in SearchTools THEN SearchResult(col)             \* lines 124-126
  ELSE DictGet(col, "value", <<>>)                         \* line 211

ToolReturn(tl, cr) ==
  IF tl \in SearchTools THEN ToolSearchReturn(tl, cr)
  ELSE ToolListReturn(cr)

\* _collect_paged lines 82-96: a page arrives; the loop goes on for the
\* next page or the collection returns to its caller and the tool returns.
PageOk(t) ==
  /\ pc[t] = "wait"
  /\ phase[t] \in CollectPhases
  /\ \E pg \in Pages(t) :
       LET its == IF hop[t] = "first" THEN pg.value        \* line 82
                  ELSE Extend(Accumulated(t), pg.value)    \* lines 89-90
           cnt == CountHint(hop[t], total_count[t], pg)
           lnk == pg.nextLink                              \* lines 84, 91
           ftc == fetched[t] \o pg.value
       IN  /\ IF LoopCond(lnk, its, limit[t])
              THEN SetFrame(t, "send", phase[t], "next", its, cnt, lnk,
                            resolved[t], user_id[t], ftc, collected[t],
                            cres[t], ret[t])
              ELSE LET out == Truncate(its, limit[t])
                       col == CollectReturn(out, cnt)
                       cr == ClientReturn(tool[t], col)
                   IN  SetFrame(t, "done", phase[t], hop[t], out, cnt, lnk,
                                resolved[t], user_id[t], ftc, Some(col),
                                Returned(cr), ToolReturn(tool[t], cr))
           /\ AnsweredPage(t, pg)
  /\ UNCHANGED <<clientVars, tokenVars, argVars, active, queryVars>>

\* The host takes the string the tool returned; the call's frame is gone.
Deliver(t) ==
  /\ pc[t] = "done"
  /\ tool' = [tool EXCEPT ![t] = "none"]
  /\ limit' = [limit EXCEPT ![t] = None]
  /\ ident' = [ident EXCEPT ![t] = "none"]
  /\ reqlog' = [reqlog EXCEPT ![t] = <<>>]
  /\ SetFrame(t, "idle", "none", "none", <<>>, None, None, None, "none",
              <<>>, None, None, None)
  /\ UNCHANGED <<clientVars, tokenVars, active, queryVars>>

Next ==
  \E t \in Tasks :
    \/ CallTool(t)
    \/ CallToolNoClient(t)
    \/ SendRequest(t)
    \/ TokenFail(t)
    \/ HttpFail(t)
    \/ DirectOk(t)
    \/ MailOk(t)
    \/ MembersOk(t)
    \/ PageOk(t)
    \/ Deliver(t)

Spec == Init /\ [][Next]_vars

\* A coroutine that can run does run (the event loop), and a request in
\* flight is answered or raises (httpx ends every request, by its timeout
\* if by nothing else).
Fairness ==
  \A t \in Tasks :
    /\ WF_vars(SendRequest(t) \/ TokenFail(t))
    /\ WF_vars(HttpFail(t) \/ DirectOk(t) \/ MailOk(t) \/ MembersOk(t)
                  \/ PageOk(t))

\* Termination is looked at in a smaller environment: limits are 2 or
\* absent, a page holds one record or none, a collection has at most
\* three pages.
FairLimits == {None, Some(2)}
FairLinks == {None, Some(2), Some(3)}
FairBodies == {<<>>, <<1>>}

FairPage(t) ==
  /\ reqlog'[t][Len(reqlog'[t])].gotlink \in FairLinks
  /\ \E b \in FairBodies :
       fetched'[t] = IF phase[t] = "members" THEN b ELSE fetched[t] \o b

NextFair ==
  \E t \in Tasks :
    \/ CallTool(t) /\ limit'[t] \in FairLimits
    \/ CallToolNoClient(t) /\ limit'[t] \in FairLimits
    \/ SendRequest(t)
    \/ TokenFail(t)
    \/ HttpFail(t)
    \/ DirectOk(t)
    \/ MailOk(t)
    \/ MembersOk(t) /\ FairPage(t)
    \/ PageOk(t) /\ FairPage(t)
    \/ Deliver(t)

SpecFair == Init /\ [][NextFair]_vars /\ Fairness

\* ------------------------------------------------ two concurrent calls
\* The host runs two tool calls at once as tasks of one event loop: a
\* step of a task is the code between two awaits that suspend (the HTTP
\* requests); _get_token and the credential's get_token do not suspend.
\* The environment is smaller here: calls start while no token is cached,
\* limits are 2, a collection has at most two pages, and the service
\* answers task A with pages of one record and task B with pages of two,
\* so that a record of the other task would show.
InitConc == Fresh /\ active = Tasks /\ NoQuery

ConcLimits == {None, Some(2)}
ConcLinks == {None, Some(2)}
ConcBodies(t) == IF t = "A" THEN {<<1>>} ELSE {<<1, 2>>}

ConcCall(t) ==
  /\ token = None
  /\ limit'[t] \in ConcLimits

ConcPage(t) ==
  /\ reqlog'[t][Len(reqlog'[t])].gotlink \in ConcLinks
  /\ \E b \in ConcBodies(t) :
       fetched'[t] = IF phase[t] = "members" THEN b ELSE fetched[t] \o b

NextConc ==
  \E t \in Tasks :
    \/ CallTool(t) /\ ConcCall(t)
    \/ CallToolNoClient(t) /\ ConcCall(t)
    \/ SendRequest(t)
    \/ TokenFail(t)
    \/ HttpFail(t)
    \/ DirectOk(t)
    \/ MailOk(t)
    \/ MembersOk(t) /\ ConcPage(t)
    \/ PageOk(t) /\ ConcPage(t)
    \/ Deliver(t)

SpecConc == InitConc /\ [][NextConc]_vars

\* ------------------------------------------- _build_and_search_query
\* Strings are sequences of characters; this is the alphabet of a query:
\* two letters, two kinds of whitespace, the double quote, the backslash.
DQ == "\""
Backslash == "\\"
Whitespace == {" ", "\t"}
Chars == {"a", "b", DQ, Backslash} \cup Whitespace
Queries == UNION {[1..n -> Chars] : n \in 0..MaxQueryLen}

\* A faulty variant of PySplit: split(" "), so that a tab separates nothing.
RECURSIVE PySplitOnSpace(_)
PySplitOnSpace(s) ==
  IF s = <<>> THEN <<>>
  ELSE IF Head(s) = " " THEN PySplitOnSpace(Tail(s))
  ELSE LET n == CHOOSE k \in 1..Len(s) :
                  /\ \A j \in 1..k : s[j] # " "
                  /\ k = Len(s) \/ s[k + 1] = " "
       IN  <<SubSeq(s, 1, n)>> \o PySplitOnSpace(SubSeq(s, n + 1, Len(s)))

\* str.split() without arguments: the maximal runs of non-whitespace.
RECURSIVE PySplit(_)
PySplit(s) ==
  IF s = <<>> THEN <<>>
  ELSE IF Head(s) \in Whitespace THEN PySplit(Tail(s))
  ELSE LET n == CHOOSE k \in 1..Len(s) :
                  /\ \A j \in 1..k : s[j] \notin Whitespace
                  /\ k = Len(s) \/ s[k + 1] \in Whitespace
       IN  <<SubSeq(s, 1, n)>> \o PySplit(SubSeq(s, n + 1, Len(s)))

\* str.strip(): without the whitespace at both ends.
PyStrip(s) ==
  LET keep == {i \in 1..Len(s) : s[i] \notin Whitespace}
  IN  IF keep = {} THEN <<>>
      ELSE SubSeq(s, CHOOSE i \in keep : \A j \in keep : i <= j,
                     CHOOSE i \in keep : \A j \in keep : i >= j)

\* str.replace(c, r) for a single character c.
RECURSIVE PyReplace(_, _, _)
PyReplace(s, c, r) ==
  IF s = <<>> THEN <<>>
  ELSE (IF Head(s) = c THEN r ELSE <<Head(s)>>) \o PyReplace(Tail(s), c, r)

\* sep.join(parts).
RECURSIVE PyJoin(_, _)
PyJoin(sep, parts) ==
  IF parts = <<>> THEN <<>>
  ELSE IF Len(parts) = 1 THEN parts[1]
  ELSE parts[1] \o sep \o PyJoin(sep, Tail(parts))

AndSep == <<" ", "A", "N", "D", " ">>

\* A faulty variant of Escape: the token is left as it is.
EscapeNone(t) == t

\* Line 103: t.replace('"', '\\"').
Escape(t) == PyReplace(t, DQ, <<Backslash, DQ>>)

\* Line 100: [t.strip() for t in raw_query.split() if t.strip()].
QueryTokens(raw) ==
  LET parts == PySplit(raw)
      stripped == [i \in 1..Len(parts) |-> PyStrip(parts[i])]
  IN  SelectSeq(stripped, LAMBDA t : t # <<>>)

\* _build_and_search_query, lines 98-104.
BuildAndSearchQuery(raw) ==
  LET tokens == QueryTokens(raw)
  IN  IF tokens = <<>>
      THEN <<DQ>> \o PyStrip(raw) \o <<DQ>>                 \* line 102
      ELSE PyJoin(AndSep, [i \in 1..Len(tokens) |->
                             <<DQ>> \o Escape(tokens[i]) \o <<DQ>>])

\* The function is handed one query of the bounded set.
InitQuery ==
  /\ Fresh
  /\ active = {}
  /\ raw_query \in Queries
  /\ search_expr = None
  /\ NoFilter

\* _build_and_search_query(raw_query) returns.
CallBuildAndSearchQuery ==
  /\ search_expr = None
  /\ search_expr' = Some(BuildAndSearchQuery(raw_query))
  /\ UNCHANGED <<clientVars, tokenVars, argVars, pc, phase, hop, items,
                 total_count, next_link, resolved, user_id, reqlog, fetched,
                 collected, cres, ret, active, raw_query, filterVars>>

NextQuery == CallBuildAndSearchQuery

SpecQuery == InitQuery /\ [][NextQuery]_vars

\* ------------------------------------------------ $filter expressions
\* A $filter expression is a sequence whose elements are pieces of the
\* f-string's own text (which hold no quote) and single characters: the
\* quotes of the f-string and the characters of the value put in.
SQ == "'"
FilterChars == {"a", "b", " ", SQ}
FilterValues == UNION {[1..n -> FilterChars] : n \in 0..MaxQueryLen}

\* Lines 112 and 149: query.replace("'", "''").strip().
Sanitize(query) == PyStrip(PyReplace(query, SQ, <<SQ, SQ>>))

\* '{v}' in an f-string.
Quoted(v) == <<SQ>> \o v \o <<SQ>>

\* Line 133.
UsersFilter(v) ==
  <<"startswith(displayName,">> \o Quoted(v)
    \o <<") or startswith(mail,">> \o Quoted(v)
    \o <<") or startswith(userPrincipalName,">> \o Quoted(v) \o <<")">>

\* Line 169.
GroupsFilter(v) ==
  <<"startswith(displayName,">> \o Quoted(v)
    \o <<") or startswith(description,">> \o Quoted(v) \o <<")">>

\* Line 190.
MailFilter(v) == <<"mail eq ">> \o Quoted(v)

\* A value of the bounded set is about to go into a $filter expression.
InitFilter ==
  /\ Fresh
  /\ active = {}
  /\ raw_query = <<>>
  /\ search_expr = None
  /\ filter_value \in FilterValues
  /\ filter_site = "none"
  /\ filter_expr = None

BuildFilter(site, expr) ==
  /\ filter_site = "none"
  /\ filter_site' = site
  /\ filter_expr' = Some(expr)
  /\ UNCHANGED <<clientVars, tokenVars, argVars, pc, phase, hop, items,
                 total_count, next_link, resolved, user_id, reqlog, fetched,
                 collected, cres, ret, active, raw_query, search_expr,
                 filter_value>>

\* search_users(filter_value, ...), lines 112 and 133.
SearchUsersFilter ==
  BuildFilter("search_users", UsersFilter(Sanitize(filter_value)))

\* search_groups(filter_value, ...), lines 149 and 169.
SearchGroupsFilter ==
  BuildFilter("search_groups", GroupsFilter(Sanitize(filter_value)))

\* _resolve_user_id(filter_value), line 190: the identifier as it came.
ResolveMailFilter ==
  BuildFilter("_resolve_user_id", MailFilter(filter_value))

NextFilter ==
  \/ SearchUsersFilter
  \/ SearchGroupsFilter
  \/ ResolveMailFilter

SpecFilter == InitFilter /\ [][NextFilter]_vars

\* =================================================================
\* Properties
\* =================================================================
\* The entries of task t's request log that belong to phase ph.
LogOf(t, ph) == {i \in 1..Len(reqlog[t]) : reqlog[t][i].phase = ph}

\* The requests of phase ph that were really sent.
SentOf(t, ph) == {i \in LogOf(t, ph) : reqlog[t][i].outcome # "unsent"}

\* The attempts of phase ph that raised (no token, or a failed request).
FailedOf(t, ph) ==
  {i \in LogOf(t, ph) : reqlog[t][i].outcome \in {"fail", "unsent"}}

IsRaised(x) == x # None /\ DOMAIN x = {"raised"}
IsReturned(x) == x # None /\ DOMAIN x = {"returned"}

\* C1: in search_users and search_groups a primary collection that raises
\* is followed by the fallback collection, whose result alone is returned:
\* the records are the fallback's pages (cut to the limit) and nothing of
\* the primary attempt; when the fallback raises too, its exception is what
\* the client method raises, and there is no third attempt.
C1_Fallback ==
  \A t \in Tasks :
    tool[t] \in SearchTools =>
      /\ FailedOf(t, "primary") # {} => phase[t] = "fallback"
      /\ phase[t] = "fallback" => FailedOf(t, "primary") # {}
      /\ Cardinality({i \in LogOf(t, "fallback") :
                        reqlog[t][i].hop = "first"}) <= 1
      /\ (pc[t] = "done" /\ phase[t] = "fallback") =>
           \/ /\ IsReturned(cres[t])
              /\ FailedOf(t, "fallback") = {}
              /\ cres[t].returned.records = Truncate(fetched[t], limit[t])
              /\ collected[t] = Some(CollectReturn(cres[t].returned.records,
                                                   total_count[t]))
           \/ /\ IsRaised(cres[t])
              /\ cres[t].raised.phase = "fallback"
              /\ \E i \in FailedOf(t, "fallback") :
                   /\ i = Len(reqlog[t])
                   /\ cres[t].raised.hop = reqlog[t][i].hop
                   /\ cres[t].raised.type =
                        (IF reqlog[t][i].outcome = "unsent" THEN "AuthError"
                         ELSE "HTTPStatusError")

\* A search whose primary attempt had collected records and then failed
\* on a continuation page returned the records of its fallback.
C1_Witness ==
  \E t \in Tasks :
    /\ tool[t] = "search_entra_users"
    /\ pc[t] = "done"
    /\ phase[t] = "fallback"
    /\ \E i \in FailedOf(t, "primary") :
         reqlog[t][i].hop = "next" /\ reqlog[t][i].have = 3
    /\ IsReturned(cres[t])
    /\ Len(cres[t].returned.records) = 1

\* C2: no continuation request goes out while item_limit is set and the
\* items already number item_limit or more; with item_limit 5 and pages of
\* 3 and 3 records the collection ends after the second request, whatever
\* link the second page carries.
C2_NoFetchPastLimit ==
  \A t \in Tasks :
    /\ \A i \in 1..Len(reqlog[t]) :
         (reqlog[t][i].hop = "next" /\ reqlog[t][i].outcome # "unsent"
            /\ limit[t] # None)
         => reqlog[t][i].have < limit[t][1]
    /\ (/\ phase[t] \in CollectPhases
        /\ limit[t] = Some(5)
        /\ fetched[t] = <<1, 2, 3, 1, 2, 3>>
        /\ Cardinality(SentOf(t, phase[t])) = 2)
       => /\ pc[t] = "done"
          /\ Len(items[t]) = 5

\* Limit 5, pages of 3 and 3 records, the second one with a continuation
\* link: two requests, five records.
C2_Witness ==
  \E t \in Tasks :
    /\ pc[t] = "done"
    /\ phase[t] = "primary"
    /\ limit[t] = Some(5)
    /\ fetched[t] = <<1, 2, 3, 1, 2, 3>>
    /\ Cardinality(SentOf(t, "primary")) = 2
    /\ next_link[t] # None
    /\ collected[t] = Some(CollectReturn(<<1, 2, 3, 1, 2>>, total_count[t]))

\* What a finished _collect_paged of task t returned, when it returned.
HasCollected(t) ==
  /\ pc[t] = "done"
  /\ phase[t] \in CollectPhases
  /\ collected[t] # None
  /\ ~IsRaised(collected[t][1])

\* C3 as claimed: for every item_limit that is set, negative ones
\* included, the returned list has at most item_limit records and is the
\* first item_limit records of the fetched pages when they hold more.
C3_AnyLimit ==
  \A t \in Tasks :
    (HasCollected(t) /\ limit[t] # None) =>
      /\ Len(collected[t][1].value) <= limit[t][1]
      /\ Len(fetched[t]) > limit[t][1] =>
           collected[t][1].value = SubSeq(fetched[t], 1, limit[t][1])

\* C3 amended: for every item_limit >= 0 the returned list has at most
\* item_limit records, and it is the first item_limit records of the
\* fetched pages, in fetch order, when they hold more than item_limit.
C3_NonNegativeLimit ==
  \A t \in Tasks :
    (HasCollected(t) /\ limit[t] # None /\ limit[t][1] >= 0) =>
      /\ Len(collected[t][1].value) <= limit[t][1]
      /\ Len(fetched[t]) > limit[t][1] =>
           collected[t][1].value = SubSeq(fetched[t], 1, limit[t][1])

\* Two pages overshoot the limit 5 by one record, which is cut.
C3_Witness ==
  \E t \in Tasks :
    /\ HasCollected(t)
    /\ limit[t] = Some(5)
    /\ Len(fetched[t]) = 6
    /\ collected[t][1].value = <<1, 2, 3, 1, 2>>

\* C4: without a limit _collect_paged follows every continuation link up
\* to a page that has none and returns all records of all pages, in the
\* order served, none dropped, moved or merged; get_user_membership
\* returns that list.
C4_NoLimitCollectsAll ==
  \A t \in Tasks :
    (phase[t] \in CollectPhases /\ limit[t] = None) =>
      /\ items[t] = fetched[t]
      /\ (pc[t] = "send" /\ hop[t] = "next") => next_link[t] # None
      /\ HasCollected(t) =>
           /\ next_link[t] = None
           /\ collected[t][1].value = fetched[t]
           /\ cres[t] = Returned(fetched[t])
           /\ ret[t] = JsonEnvelope(Len(fetched[t]), fetched[t])
           /\ \A i \in SentOf(t, phase[t]) : reqlog[t][i].outcome = "ok"

\* Three pages of three records each: nine records from three requests.
C4_Witness ==
  \E t \in Tasks :
    /\ HasCollected(t)
    /\ tool[t] = "get_user_group_membership"
    /\ limit[t] = None
    /\ Cardinality(SentOf(t, "memberOf")) = 3
    /\ cres[t] = Returned(<<1, 2, 3, 1, 2, 3, 1, 2, 3>>)

\* C5: a fetch of _collect_paged that fails ends the collection at once:
\* the collection sends no further request and returns nothing, its
\* exception goes to its caller (the items of earlier pages are in no
\* result).
C5_FailurePropagates ==
  \A t \in Tasks : \A ph \in CollectPhases :
    \A i \in LogOf(t, ph) :
      reqlog[t][i].outcome = "fail" =>
        /\ \A j \in LogOf(t, ph) : j <= i
        /\ IF phase[t] = ph
           THEN /\ pc[t] = "done"
                /\ collected[t] =
                     Some(Raised(Exc("HTTPStatusError", ph, reqlog[t][i].hop)))
                /\ ph # "primary"
                /\ cres[t] = collected[t][1]
                /\ ret[t].kind = "error"
           ELSE /\ ph = "primary"
                /\ phase[t] = "fallback"
                /\ (pc[t] = "done" /\ IsReturned(cres[t])) =>
                     cres[t].returned.records = Truncate(fetched[t], limit[t])

\* A membership collection failed on its third page, after two pages of
\* records: the call ended with the exception and no records.
C5_Witness ==
  \E t \in Tasks :
    /\ pc[t] = "done"
    /\ phase[t] = "memberOf"
    /\ Len(fetched[t]) = 6
    /\ Cardinality(SentOf(t, "memberOf")) = 3
    /\ reqlog[t][Len(reqlog[t])].outcome = "fail"
    /\ IsRaised(cres[t])

\* C6: the total count search_users and search_groups return is the
\* @odata.count of the first page when the service reported one, and the
\* number of records returned when it did not.
C6_TotalCountHintOrLen ==
  \A t \in Tasks :
    (tool[t] \in SearchTools /\ pc[t] = "done" /\ IsReturned(cres[t])) =>
      cres[t].returned.total_count =
        (IF total_count[t] # None THEN total_count[t]
         ELSE Some(Len(cres[t].returned.records)))

\* What the code does instead: the dict of _collect_paged always has the
\* key "count", so the total count is the first page's hint even when that
\* is None, and the tool then fails on int(None).
C6_TotalCountIsHint ==
  \A t \in Tasks :
    (tool[t] \in SearchTools /\ pc[t] = "done" /\ IsReturned(cres[t])) =>
      /\ cres[t].returned.total_count = total_count[t]
      /\ total_count[t] = None =>
           ret[t] = ErrorString(tool[t], Exc("TypeError", "tool", "none"))

\* C7: in get_user_membership, when the direct lookup fails and the mail
\* lookup's first match has id X, the membership collection asks for
\* /users/X/memberOf and never for /users/<raw identifier>/memberOf; after
\* a failed direct lookup the raw identifier is in the path only when the
\* mail lookup failed or matched nothing.
C7_ResolvedTarget ==
  \A t \in Tasks :
    \A i \in SentOf(t, "memberOf") :
      /\ reqlog[t][i].hop = "first" =>
           /\ reqlog[t][i].endpoint = <<"users", user_id[t], "memberOf">>
           /\ FailedOf(t, "direct") # {} =>
                /\ \A j \in LogOf(t, "mail") :
                     reqlog[t][j].match # None =>
                       /\ user_id[t] = reqlog[t][j].match[1]
                       /\ user_id[t] # ident[t]
                /\ user_id[t] = ident[t] =>
                     /\ LogOf(t, "mail") # {}
                     /\ \A j \in LogOf(t, "mail") : reqlog[t][j].match = None
      /\ reqlog[t][i].hop = "next" =>
           /\ reqlog[t][i].endpoint = <<>>
           /\ reqlog[t][i].link # None

\* "jane@co.com": the direct lookup failed, the mail lookup matched u42,
\* and the membership request went to /users/u42/memberOf.
C7_Witness ==
  \E t \in Tasks :
    /\ ident[t] = "jane@co.com"
    /\ \E i \in LogOf(t, "direct") : reqlog[t][i].outcome = "fail"
    /\ \E j \in LogOf(t, "mail") : reqlog[t][j].match = Some("u42")
    /\ \E k \in SentOf(t, "memberOf") :
         reqlog[t][k].endpoint = <<"users", "u42", "memberOf">>

\* C8: _resolve_user_id never raises: whatever its two lookups do (no
\* token, failed request, empty match list) control reaches the membership
\* collection, and the value is None when the direct lookup failed and the
\* mail lookup failed or matched nothing.
C8_ResolveNeverRaises ==
  \A t \in Tasks :
    tool[t] = "get_user_group_membership" =>
      /\ IsRaised(cres[t]) => cres[t].raised.phase \notin {"direct", "mail"}
      /\ pc[t] = "done" => phase[t] \in {"memberOf", "construct"}
      /\ FailedOf(t, "direct") # {} => phase[t] \in {"mail", "memberOf"}
      /\ FailedOf(t, "mail") # {} => phase[t] = "memberOf"
      /\ phase[t] = "memberOf" =>
           /\ LogOf(t, "direct") # {}
           /\ (/\ FailedOf(t, "direct") # {}
               /\ \A j \in LogOf(t, "mail") : reqlog[t][j].match = None)
              => resolved[t] = None
           /\ FailedOf(t, "direct") = {} => resolved[t] = Some(ident[t])

\* Both lookups of a resolution failed and the membership request went out
\* all the same, with the raw identifier.
C8_Witness ==
  \E t \in Tasks :
    /\ phase[t] = "memberOf"
    /\ \E i \in LogOf(t, "direct") : reqlog[t][i].outcome = "fail"
    /\ \E j \in LogOf(t, "mail") : reqlog[t][j].outcome = "fail"
    /\ resolved[t] = None
    /\ SentOf(t, "memberOf") # {}

\* C9: every tool call ends with a string, the JSON envelope or "Error
\* <doing X>: <message>"; whatever was raised on the way (no client, no
\* token, a failed request) is in that string; and the next call is served.
C9_ToolsReturnStrings ==
  \A t \in Tasks :
    /\ pc[t] = "done" =>
         /\ ret[t] # None
         /\ ret[t].kind \in {"json", "error"}
         /\ IsRaised(cres[t]) =>
              ret[t] = [kind |-> "error", doing |-> Doing(tool[t]),
                        message |-> cres[t].raised]
         /\ phase[t] = "construct" =>
              /\ ret[t].kind = "error"
              /\ ret[t].message.type = "ValueError"
         /\ ENABLED Deliver(t)
    /\ (t \in active /\ pc[t] = "idle") =>
         ENABLED (CallTool(t) \/ CallToolNoClient(t))

\* A membership call whose request failed returned the error string.
C9_Witness ==
  \E t \in Tasks :
    /\ pc[t] = "done"
    /\ tool[t] = "get_user_group_membership"
    /\ phase[t] = "memberOf"
    /\ IsRaised(cres[t])
    /\ ret[t] = [kind |-> "error", doing |-> "getting user membership",
                 message |-> Exc("HTTPStatusError", "memberOf", "first")]

\* C10: once the credential provider has returned a token it is not
\* called again, the cached token stays, and every request sent from then
\* on carries it.
C10_TokenCachedOnce ==
  [][token # None =>
       /\ credCalls' = credCalls
       /\ token' = token
       /\ \A t \in Tasks :
            \A i \in 1..Len(reqlog'[t]) :
              reqlog'[t][i].outcome # "unsent" =>
                reqlog'[t][i].auth = token[1]]_vars

\* The second call of the provider returned token 2; two requests have
\* gone out since, both with it.
C10_Witness ==
  \E t \in Tasks :
    /\ token = Some(2)
    /\ credCalls = 2
    /\ Cardinality({i \in 1..Len(reqlog[t]) : reqlog[t][i].auth = 2}) >= 2

\* C13: get_group_members attempts one request per call, the first page
\* of /groups/{id}/members, and none after it, even when the page carries
\* a continuation link; a call that returns has sent exactly that one
\* request and returns the value list of its page, whole.
C13_MembersSinglePage ==
  \A t \in Tasks :
    tool[t] = "get_group_members" =>
      /\ Len(reqlog[t]) <= 1
      /\ \A i \in 1..Len(reqlog[t]) :
           /\ reqlog[t][i].phase = "members"
           /\ reqlog[t][i].hop = "first"
           /\ reqlog[t][i].link = None
           /\ reqlog[t][i].endpoint = <<"groups", ident[t], "members">>
      /\ pc[t] = "send" => reqlog[t] = <<>>
      /\ (pc[t] = "done" /\ IsReturned(cres[t])) =>
           /\ Len(reqlog[t]) = 1
           /\ reqlog[t][1].outcome = "ok"
           /\ cres[t] = Returned(fetched[t])
           /\ ret[t] = JsonEnvelope(Len(fetched[t]), fetched[t])

\* The single page had three members and a continuation link: the call
\* returned the three members after one request.
C13_Witness ==
  \E t \in Tasks :
    /\ tool[t] = "get_group_members"
    /\ pc[t] = "done"
    /\ Len(reqlog[t]) = 1
    /\ reqlog[t][1].gotlink # None
    /\ cres[t] = Returned(<<1, 2, 3>>)

\* C14: the requests of one search come one at a time and in this order:
\* the primary first page, the primary continuation pages, and then, only
\* after a primary request raised, the fallback first page and the
\* fallback continuation pages; a search whose primary collection
\* returned has issued no fallback request.
C14_SearchRequestOrder ==
  \A t \in Tasks :
    tool[t] \in SearchTools =>
      LET log == reqlog[t]
      IN  /\ \A i \in 1..Len(log) :
               /\ log[i].phase \in {"primary", "fallback"}
               /\ log[i].hop = "first" <=>
                    (i = 1 \/ log[i - 1].phase # log[i].phase)
               /\ i < Len(log) =>
                    IF log[i].outcome = "ok"
                    THEN /\ log[i + 1].phase = log[i].phase
                         /\ log[i + 1].hop = "next"
                    ELSE /\ log[i].outcome \in {"fail", "unsent"}
                         /\ log[i].phase = "primary"
                         /\ log[i + 1].phase = "fallback"
          /\ LogOf(t, "fallback") # {} => FailedOf(t, "primary") # {}
          /\ (pc[t] = "done" /\ phase[t] = "primary") =>
               /\ LogOf(t, "fallback") = {}
               /\ FailedOf(t, "primary") = {}

\* Primary first page, primary continuation page (which failed), fallback
\* first page, fallback continuation page: four requests in that order.
C14_Witness ==
  \E t \in Tasks :
    /\ tool[t] \in SearchTools
    /\ pc[t] = "done"
    /\ Len(reqlog[t]) = 4
    /\ reqlog[t][2].phase = "primary" /\ reqlog[t][2].outcome = "fail"
    /\ reqlog[t][3].phase = "fallback" /\ reqlog[t][3].hop = "first"
    /\ reqlog[t][4].phase = "fallback" /\ reqlog[t][4].outcome = "ok"

\* C17: get_entra_client constructs an EntraClient successfully at most
\* once; once the global is set no call replaces it, and every call that
\* gets a client gets that one instance.
C17_OneClient ==
  [][/\ entra_client # None =>
          /\ entra_client' = entra_client
          /\ nclients' = nclients
     /\ nclients' <= 1
     /\ \A t \in Tasks :
          (pc[t] = "idle" /\ pc'[t] = "send") => entra_client' = Some(1)]_vars

\* A call has just got the client while the token of an earlier call's
\* request is cached on it: the instance of the earlier call.
C17_Witness ==
  \E t \in Tasks :
    /\ entra_client = Some(1)
    /\ nclients = 1
    /\ token # None
    /\ pc[t] = "send"
    /\ reqlog[t] = <<>>

\* C18 as claimed: search_users and search_groups return the sequence of
\* matching records itself, so that a single page of n <= limit records
\* gives a value of length n whose i-th element is the page's i-th record.
C18_ReturnsRecordSequence ==
  \A t \in Tasks :
    (/\ tool[t] \in SearchTools
     /\ pc[t] = "done"
     /\ IsReturned(cres[t])
     /\ Len(reqlog[t]) = 1
     /\ limit[t] # None /\ Len(fetched[t]) <= limit[t][1])
    => cres[t].returned = fetched[t]

\* What the code returns instead: a dict that holds the record sequence
\* under "users" ("groups") next to "total_count".
C18_ReturnsDict ==
  \A t \in Tasks :
    (/\ tool[t] \in SearchTools
     /\ pc[t] = "done"
     /\ IsReturned(cres[t])
     /\ Len(reqlog[t]) = 1
     /\ limit[t] # None /\ Len(fetched[t]) <= limit[t][1])
    => /\ DOMAIN cres[t].returned = {"records", "total_count"}
       /\ cres[t].returned.records = fetched[t]

\* C19 as claimed: every continuation request carries a token obtained
\* anew for that hop, one that no earlier request of the call carried.
C19_FreshTokenPerHop ==
  \A t \in Tasks :
    \A i \in 1..Len(reqlog[t]) :
      (reqlog[t][i].hop = "next" /\ reqlog[t][i].outcome # "unsent") =>
        \A j \in 1..(i - 1) :
          reqlog[t][j].outcome # "unsent" =>
            reqlog[t][j].auth # reqlog[t][i].auth

\* C19 amended: every continuation request carries the token _get_token
\* returns, which is the cached token the previous page's request carried,
\* together with Content-Type and the caller's extra headers, and goes to
\* the continuation URL of the previous page as it is, with no endpoint
\* and no query parameters.
C19_HopHeadersAndLink ==
  \A t \in Tasks :
    \A i \in 1..Len(reqlog[t]) :
      (reqlog[t][i].hop = "next" /\ reqlog[t][i].outcome # "unsent") =>
        /\ i > 1
        /\ reqlog[t][i - 1].outcome = "ok"
        /\ reqlog[t][i].auth = reqlog[t][i - 1].auth
        /\ token = Some(reqlog[t][i].auth)
        /\ reqlog[t][i].headers =
             {"Authorization", "Content-Type", "ConsistencyLevel"}
        /\ reqlog[t][i - 1].gotlink # None
        /\ reqlog[t][i].link = reqlog[t][i - 1].gotlink
        /\ reqlog[t][i].endpoint = <<>>
        /\ reqlog[t][i].params = "none"

\* The third request of a collection went to the link of the second page
\* with the token of the first request.
C19_Witness ==
  \E t \in Tasks :
    /\ Len(reqlog[t]) = 3
    /\ reqlog[t][3].hop = "next"
    /\ reqlog[t][3].outcome = "pending"
    /\ reqlog[t][3].link = Some(3)
    /\ reqlog[t][2].gotlink = Some(3)
    /\ reqlog[t][3].auth = reqlog[t][1].auth
    /\ credCalls = 1

\* C20: the count hint of a collection is the @odata.count of the first
\* page of that collection from the moment the page arrives to the return,
\* whatever hint the continuation pages carry; in a fallback collection it
\* is the hint of the fallback's first page, whatever the primary's was.
C20_CountHintOfFirstPage ==
  \A t \in Tasks :
    phase[t] \in CollectPhases =>
      \A i \in LogOf(t, phase[t]) :
        (reqlog[t][i].hop = "first" /\ reqlog[t][i].outcome = "ok") =>
          /\ total_count[t] = reqlog[t][i].gotcount
          /\ HasCollected(t) =>
               collected[t][1].count = reqlog[t][i].gotcount

\* The primary's first page had hint 7; the fallback's first page had
\* none and its continuation page had 9: the fallback returned no hint.
C20_Witness ==
  \E t \in Tasks :
    /\ HasCollected(t)
    /\ phase[t] = "fallback"
    /\ \E i \in LogOf(t, "primary") : reqlog[t][i].gotcount = Some(7)
    /\ \E j, k \in LogOf(t, "fallback") :
         /\ reqlog[t][j].hop = "first" /\ reqlog[t][j].outcome = "ok"
         /\ reqlog[t][j].gotcount = None
         /\ reqlog[t][k].hop = "next" /\ reqlog[t][k].gotcount = Some(9)
    /\ collected[t][1].count = None

\* The attempts of task t that found no token: the provider raised.
Unsent(t) == {i \in 1..Len(reqlog[t]) : reqlog[t][i].outcome = "unsent"}

\* C11 as claimed: two operations that start on an empty cache can bring
\* the credential provider to two calls, one token request for each, and
\* in every interleaving both proceed with a valid token: whenever the
\* provider has been called twice while the two are running, no token
\* request of either has raised.
C11_TwoCallsTwoTokens ==
  \A t, u \in Tasks :
    (t # u /\ pc[t] # "idle" /\ pc[u] # "idle" /\ credCalls = 2) =>
      Unsent(t) = {} /\ Unsent(u) = {}

\* C11 amended: of two operations that start on an empty cache the first
\* to reach _get_token calls the credential provider, and when that call
\* returns a token the other finds it cached (nothing is awaited between
\* the test and the assignment of lines 48-49); the provider is called
\* again only after a call that raised, so that the cached token is the
\* one of its last call, and every request either operation sends
\* carries that token.
C11_OneTokenForBoth ==
  /\ token # None => token = Some(credCalls)
  /\ \A t \in Tasks :
       \A i \in 1..Len(reqlog[t]) :
         reqlog[t][i].outcome # "unsent" =>
           token = Some(reqlog[t][i].auth)
  /\ \A t, u \in Tasks :
       (t # u /\ pc[t] = "wait" /\ pc[u] = "wait") =>
         reqlog[t][Len(reqlog[t])].auth = reqlog[u][Len(reqlog[u])].auth

\* Both operations had started when the first token request raised for
\* one of them; the other's request brought token 2, and the first went
\* on with that token: two provider calls, one token.
C11_Witness ==
  \E t, u \in Tasks :
    /\ t # u
    /\ credCalls = 2
    /\ token = Some(2)
    /\ reqlog[t] # <<>> /\ reqlog[t][1].outcome = "unsent"
    /\ reqlog[u] # <<>> /\ reqlog[u][1].auth = 2
    /\ pc[t] = "wait" /\ pc[u] = "wait"
    /\ reqlog[t][Len(reqlog[t])].auth = 2

\* The state of the call task t is serving: arguments, locals, results.
FrameOf(t) ==
  <<pc[t], tool[t], limit[t], ident[t], phase[t], hop[t], items[t],
    total_count[t], next_link[t], resolved[t], user_id[t], reqlog[t],
    fetched[t], collected[t], cres[t], ret[t]>>

\* What task t has of its own pages and of nothing else.
OwnPagesOnly(t) ==
  /\ \A i \in 1..Len(fetched[t]) :
       \E b \in ConcBodies(t) : \E k \in 1..Len(b) : fetched[t][i] = b[k]
  /\ (phase[t] \in CollectPhases /\ pc[t] # "done") => items[t] = fetched[t]
  /\ \A i \in 1..Len(reqlog[t]) :
       reqlog[t][i].hop = "next" =>
         /\ i > 1
         /\ reqlog[t][i].link = reqlog[t][i - 1].gotlink
  /\ HasCollected(t) =>
       /\ collected[t][1].value = Truncate(fetched[t], limit[t])
       /\ \E i \in LogOf(t, phase[t]) :
            /\ reqlog[t][i].hop = "first"
            /\ collected[t][1].count = reqlog[t][i].gotcount
       /\ cres[t] = Returned(ClientReturn(tool[t], collected[t][1]))
  /\ (tool[t] = "get_group_members" /\ IsReturned(cres[t])) =>
       cres[t] = Returned(fetched[t])

\* C12: in every interleaving of two concurrent operations each one's
\* result is made of the pages that answered its own requests (their
\* records, the count hint of its own first page) and each continuation
\* request follows the link of its own previous page; a step of one
\* operation leaves the other's call as it is, and once the client exists
\* the cached token is the only state of it or of the module a step
\* writes.
C12_OwnPagesOnly ==
  [][/\ \A t \in Tasks : OwnPagesOnly(t)'
     /\ \A t, u \in Tasks :
          t # u => (FrameOf(t)' = FrameOf(t) \/ FrameOf(u)' = FrameOf(u))
     /\ entra_client # None => clientVars' = clientVars]_vars

\* A search and a membership listing ran side by side, two pages each:
\* A returned its two records, B its four, each with the count hint of
\* its own first page.
C12_Witness ==
  /\ HasCollected("A") /\ HasCollected("B")
  /\ tool["A"] \in SearchTools
  /\ tool["B"] = "get_user_group_membership"
  /\ Cardinality(SentOf("A", "primary")) = 2
  /\ Cardinality(SentOf("B", "memberOf")) = 2
  /\ collected["A"][1].value = <<1, 1>>
  /\ collected["B"][1].value = <<1, 2, 1, 2>>
  /\ collected["A"][1].count # collected["B"][1].count

\* ------------------------------------------------ query expressions
\* The whitespace-delimited tokens of a string, by position: a token
\* starts at a non-blank character that follows a blank or nothing and
\* runs up to the next blank.
WordStarts(q) ==
  {i \in 1..Len(q) :
     q[i] \notin Whitespace /\ (i = 1 \/ q[i - 1] \in Whitespace)}

WordEnd(q, i) ==
  CHOOSE j \in i..Len(q) :
    /\ \A k \in i..j : q[k] \notin Whitespace
    /\ j = Len(q) \/ q[j + 1] \in Whitespace

NthStart(q, n) ==
  CHOOSE i \in WordStarts(q) :
    Cardinality({j \in WordStarts(q) : j < i}) = n - 1

Words(q) ==
  [n \in 1..Cardinality(WordStarts(q)) |->
     SubSeq(q, NthStart(q, n), WordEnd(q, NthStart(q, n)))]

\* x between one pair of double quotes.
Wrapped(x) == <<DQ>> \o x \o <<DQ>>

\* The parts put one after the other with " AND " between them.
RECURSIVE AndJoined(_)
AndJoined(parts) ==
  IF Len(parts) <= 1 THEN (IF parts = <<>> THEN <<>> ELSE parts[1])
  ELSE AndJoined(SubSeq(parts, 1, Len(parts) - 1))
         \o AndSep \o parts[Len(parts)]

\* The token w with a backslash put before each of its double quotes:
\* character i of w lands behind the backslashes of the quotes up to it.
QuotesUpTo(w, i) == Cardinality({k \in 1..i : w[k] = DQ})

WithEscapedQuotes(w) ==
  [p \in 1..(Len(w) + QuotesUpTo(w, Len(w))) |->
     IF \E i \in 1..Len(w) : i + QuotesUpTo(w, i) = p
     THEN w[CHOOSE i \in 1..Len(w) : i + QuotesUpTo(w, i) = p]
     ELSE Backslash]

\* C15 as claimed: for every input the expression is the tokens, in input
\* order, each wrapped in double quotes as it is, joined by " AND "; with
\* no token it is the trimmed input in one pair of double quotes.
C15_TokensWrappedAsIs ==
  search_expr # None =>
    search_expr[1] =
      (IF Words(raw_query) = <<>> THEN Wrapped(<<>>)
       ELSE AndJoined([i \in 1..Len(Words(raw_query)) |->
                         Wrapped(Words(raw_query)[i])]))

\* C15 amended: for every input with at least one whitespace-delimited
\* token the expression is the tokens, in input order, each with every
\* double quote in it escaped as backslash-quote and then wrapped in
\* double quotes, joined by " AND ": a token without a double quote is
\* wrapped as it is; with no token the expression is the trimmed input,
\* which is empty, in one pair of double quotes.
C15_TokensEscapedAndWrapped ==
  search_expr # None =>
    search_expr[1] =
      (IF Words(raw_query) = <<>> THEN Wrapped(<<>>)
       ELSE AndJoined([i \in 1..Len(Words(raw_query)) |->
                         Wrapped(WithEscapedQuotes(Words(raw_query)[i]))]))

\* The query of a double quote, a blank and b gave "\"" AND "b".
C15_Witness ==
  /\ raw_query = <<DQ, " ", "b">>
  /\ search_expr = Some(<<DQ, Backslash, DQ, DQ, " ", "A", "N", "D", " ",
                          DQ, "b", DQ>>)

\* Re-parsing an expression: split on " AND ", take off the outer quotes
\* of each part, turn each backslash-quote back into a quote.
RECURSIVE SplitOnAnd(_)
SplitOnAnd(e) ==
  LET hits == {i \in 1..(Len(e) - Len(AndSep) + 1) :
                 SubSeq(e, i, i + Len(AndSep) - 1) = AndSep}
  IN  IF hits = {} THEN <<e>>
      ELSE LET i == CHOOSE h \in hits : \A g \in hits : h <= g
           IN  <<SubSeq(e, 1, i - 1)>>
                 \o SplitOnAnd(SubSeq(e, i + Len(AndSep), Len(e)))

StripOuterQuotes(part) ==
  IF Len(part) >= 2 /\ part[1] = DQ /\ part[Len(part)] = DQ
  THEN SubSeq(part, 2, Len(part) - 1)
  ELSE part

RECURSIVE Unescape(_)
Unescape(x) ==
  IF x = <<>> THEN <<>>
  ELSE IF Len(x) >= 2 /\ x[1] = Backslash /\ x[2] = DQ
       THEN <<DQ>> \o Unescape(SubSeq(x, 3, Len(x)))
       ELSE <<Head(x)>> \o Unescape(Tail(x))

Reparsed(e) ==
  [i \in 1..Len(SplitOnAnd(e)) |->
     Unescape(StripOuterQuotes(SplitOnAnd(e)[i]))]

\* C16: for every input with a double quote in it, every double quote of
\* a token is in the expression with a backslash put before it (inside
\* the outer quotes of a part no double quote stands without one, and
\* there are as many as the input has), and re-parsing the expression
\* gives back the tokens of the input, all of them, in order.
C16_EscapeRoundTrip ==
  (search_expr # None /\ \E i \in 1..Len(raw_query) : raw_query[i] = DQ) =>
    LET parts == SplitOnAnd(search_expr[1])
        inner == [i \in 1..Len(parts) |-> StripOuterQuotes(parts[i])]
    IN  /\ \A i \in 1..Len(parts) :
             /\ Len(parts[i]) >= 2
             /\ parts[i][1] = DQ /\ parts[i][Len(parts[i])] = DQ
             /\ \A k \in 1..Len(inner[i]) :
                  inner[i][k] = DQ => (k > 1 /\ inner[i][k - 1] = Backslash)
             /\ i <= Len(Words(raw_query)) =>
                  QuotesUpTo(inner[i], Len(inner[i])) =
                    QuotesUpTo(Words(raw_query)[i],
                               Len(Words(raw_query)[i]))
        /\ Reparsed(search_expr[1]) = Words(raw_query)

\* The token of a backslash and a double quote became backslash,
\* backslash, quote between the outer quotes, and came back whole.
C16_Witness ==
  /\ raw_query = <<Backslash, DQ>>
  /\ search_expr = Some(<<DQ, Backslash, Backslash, DQ, DQ>>)
  /\ Reparsed(search_expr[1]) = <<raw_query>>

\* C21: a resolution starts with the direct lookup and has one of it;
\* when the direct lookup succeeds the identifier is the result, as it
\* came, and no mail lookup follows; the mail lookup comes second, once,
\* and only after a direct lookup that raised; a resolution makes at most
\* two requests.
C21_ResolveOrder ==
  \A t \in Tasks :
    tool[t] = "get_user_group_membership" =>
      LET log == reqlog[t]
          lookups == LogOf(t, "direct") \cup LogOf(t, "mail")
      IN  /\ log # <<>> => log[1].phase = "direct"
          /\ LogOf(t, "direct") \subseteq {1}
          /\ LogOf(t, "mail") \subseteq {2}
          /\ Cardinality(lookups) <= 2
          /\ LogOf(t, "mail") # {} =>
               log[1].outcome \in {"fail", "unsent"}
          /\ (log # <<>> /\ log[1].outcome = "ok") =>
               /\ LogOf(t, "mail") = {}
               /\ resolved[t] = Some(ident[t])
               /\ \A i \in LogOf(t, "memberOf") : i >= 2
          /\ \A i \in lookups :
               reqlog[t][i].outcome = "pending" => i = Len(log)

\* The direct lookup failed, the mail lookup answered, and the membership
\* collection is on its first request: two lookups, in that order.
C21_Witness ==
  \E t \in Tasks :
    /\ tool[t] = "get_user_group_membership"
    /\ Len(reqlog[t]) = 3
    /\ reqlog[t][1].phase = "direct" /\ reqlog[t][1].outcome = "fail"
    /\ reqlog[t][2].phase = "mail" /\ reqlog[t][2].outcome = "ok"
    /\ reqlog[t][3].phase = "memberOf"

\* C23 as claimed: search_entra_users and search_entra_groups return the
\* JSON envelope whenever the client's search returned, a first page
\* without @odata.count included, and the error string only when both
\* collections raised.
C23_EnvelopeWheneverSearchReturns ==
  \A t \in Tasks :
    (tool[t] \in SearchTools /\ pc[t] = "done" /\ phase[t] # "construct") =>
      /\ IsReturned(cres[t]) =>
           /\ ret[t].kind = "json"
           /\ ret[t].records = cres[t].returned.records
      /\ ret[t].kind = "error" =>
           /\ IsRaised(cres[t])
           /\ FailedOf(t, "primary") # {}
           /\ FailedOf(t, "fallback") # {}

\* What holds: the envelope is returned when the search returned and the
\* first page of the collection that succeeded carried @odata.count.
C23_EnvelopeWhenCounted ==
  \A t \in Tasks :
    (tool[t] \in SearchTools /\ pc[t] = "done" /\ IsReturned(cres[t])) =>
      IF total_count[t] # None
      THEN ret[t] = JsonEnvelope(total_count[t][1], cres[t].returned.records)
      ELSE ret[t] = ErrorString(tool[t], Exc("TypeError", "tool", "none"))

\* C25: an attempt that finds the cache empty calls the credential
\* provider; when the provider raises, the cache stays empty and no
\* request goes out for that attempt, the exception being raised in its
\* place; when it returns, its token is cached.  A search for which the
\* provider raises every time has called it twice, for the primary and
\* then for the fallback first page, and raises the second failure.
C25_FailedTokenNotCached ==
  [][/\ \A t \in Tasks :
          Len(reqlog'[t]) = Len(reqlog[t]) + 1 =>
            LET e == reqlog'[t][Len(reqlog'[t])]
            IN  /\ token = None => credCalls' = credCalls + 1
                /\ e.outcome = "unsent" =>
                     /\ token = None /\ token' = None
                     /\ pc'[t] # "wait"
                /\ e.outcome # "unsent" => token' = Some(e.auth)
     /\ \A t \in Tasks :
          (/\ tool'[t] \in SearchTools
           /\ reqlog'[t] # <<>>
           /\ \A i \in 1..Len(reqlog'[t]) : reqlog'[t][i].outcome = "unsent")
          => /\ Len(reqlog'[t]) <= 2
             /\ reqlog'[t][1].phase = "primary"
             /\ Len(reqlog'[t]) = 1 =>
                  phase'[t] = "fallback" /\ pc'[t] = "send"
             /\ Len(reqlog'[t]) = 2 =>
                  /\ reqlog'[t][2].phase = "fallback"
                  /\ pc'[t] = "done"
                  /\ cres'[t] = Raised(Exc("AuthError", "fallback", "first"))
                  /\ ret'[t] = ErrorString(tool'[t],
                                           Exc("AuthError", "fallback",
                                               "first"))]_vars

\* The provider raised for the primary and for the fallback of a search:
\* two calls, no request sent, no token cached, the second failure in the
\* tool's error string.
C25_Witness ==
  \E t \in Tasks :
    /\ tool[t] \in SearchTools
    /\ pc[t] = "done"
    /\ Len(reqlog[t]) = 2
    /\ reqlog[t][1].outcome = "unsent" /\ reqlog[t][2].outcome = "unsent"
    /\ credCalls = 2
    /\ token = None
    /\ cres[t] = Raised(Exc("AuthError", "fallback", "first"))

\* The number of records of the page that answered request i of task t.
PageSize(t, i) ==
  (IF i < Len(reqlog[t]) /\ reqlog[t][i + 1].phase = reqlog[t][i].phase
   THEN reqlog[t][i + 1].have
   ELSE Len(fetched[t])) - reqlog[t][i].have

\* The collection of task t has a limit L >= 1 and no empty page yet.
LimitedAndFed(t) ==
  /\ phase[t] \in CollectPhases
  /\ limit[t] # None /\ limit[t][1] >= 1
  /\ \A i \in LogOf(t, phase[t]) :
       reqlog[t][i].outcome = "ok" => PageSize(t, i) >= 1

\* The collection ph of task t is under way and the credential provider
\* still answers.
Collecting(t, ph) ==
  /\ phase[t] = ph
  /\ pc[t] \in {"send", "wait"}
  /\ token # None \/ credCalls < MaxCredCalls

\* C24: a collection whose pages come to a page without a continuation
\* link ends, by returning or by raising; and a collection with item_limit
\* L >= 1 whose pages all hold a record sends at most L requests, also
\* when its last page still carries a continuation link.
C24_CollectEnds ==
  /\ [](\A t \in Tasks :
          LimitedAndFed(t) =>
            Cardinality(SentOf(t, phase[t])) <= limit[t][1])
  /\ \A t \in Tasks : \A ph \in CollectPhases :
       Collecting(t, ph) ~> (pc[t] = "done" \/ phase[t] # ph)

\* Limit 2, two pages of one record each, the second with a continuation
\* link: the collection returned after its second request.
C24_Witness ==
  \E t \in Tasks :
    /\ HasCollected(t)
    /\ LimitedAndFed(t)
    /\ limit[t] = Some(2)
    /\ fetched[t] = <<1, 1>>
    /\ Cardinality(SentOf(t, phase[t])) = 2
    /\ reqlog[t][Len(reqlog[t])].gotlink # None

\* ------------------------------------------------ reading a $filter
\* How the service reads a $filter expression: a quote opens a literal,
\* two quotes in a row inside it are one quote of the literal, a single
\* quote closes it.  The result is the sequence of the pieces of text
\* outside literals and of the literals; a literal that is never closed
\* is marked open.
RECURSIVE ReadOutside(_), ReadLiteral(_, _)
ReadOutside(e) ==
  IF e = <<>> THEN <<>>
  ELSE IF Head(e) = SQ THEN ReadLiteral(Tail(e), <<>>)
  ELSE <<[text |-> Head(e)]>> \o ReadOutside(Tail(e))

ReadLiteral(e, acc) ==
  IF e = <<>> THEN <<[open |-> acc]>>
  ELSE IF Head(e) # SQ THEN ReadLiteral(Tail(e), Append(acc, Head(e)))
  ELSE IF Len(e) >= 2 /\ e[2] = SQ
       THEN ReadLiteral(SubSeq(e, 3, Len(e)), Append(acc, SQ))
       ELSE <<[literal |-> acc]>> \o ReadOutside(Tail(e))

\* The value without the blanks at its ends, by position.
Trimmed(v) ==
  LET solid == {i \in 1..Len(v) : v[i] \notin Whitespace}
  IN  IF solid = {} THEN <<>>
      ELSE [k \in 1..(1 + (CHOOSE i \in solid : \A j \in solid : i >= j)
                        - (CHOOSE i \in solid : \A j \in solid : i <= j)) |->
              v[k - 1 + (CHOOSE i \in solid : \A j \in solid : i <= j)]]

\* What the service is meant to read at each site: the text of the
\* expression with the value as the whole of each literal.
MeantReading(site, v) ==
  CASE site = "search_users" ->
         <<[text |-> "startswith(displayName,"], [literal |-> Trimmed(v)],
           [text |-> ") or startswith(mail,"], [literal |-> Trimmed(v)],
           [text |-> ") or startswith(userPrincipalName,"],
           [literal |-> Trimmed(v)], [text |-> ")"]>>
    [] site = "search_groups" ->
         <<[text |-> "startswith(displayName,"], [literal |-> Trimmed(v)],
           [text |-> ") or startswith(description,"],
           [literal |-> Trimmed(v)], [text |-> ")"]>>
    [] site = "_resolve_user_id" ->
         <<[text |-> "mail eq "], [literal |-> v]>>

\* The quotes of e.
QuoteCount(e) == Cardinality({i \in 1..Len(e) : e[i] = SQ})

\* How many literals the expression of a site has.
LiteralsAt(site) ==
  CASE site = "search_users" -> 3
    [] site = "search_groups" -> 2
    [] site = "_resolve_user_id" -> 1

C22_QuotesDoubledInSearch ==
  (filter_expr # None /\ filter_site \in {"search_users", "search_groups"}) =>
    /\ QuoteCount(filter_expr[1]) =
         LiteralsAt(filter_site) * (2 + 2 * QuoteCount(Trimmed(filter_value)))
    /\ ReadOutside(filter_expr[1]) = MeantReading(filter_site, filter_value)
====
